---------------------------- MODULE Spec2Model ----------------------------
(***************************************************************************)
(* A model of the site reorganization pipeline of journal-club             *)
(* (scripts/reorg-site.sh): preflight, backup, flatten into the publish    *)
(* root, restructure with redirect stubs, asset-path rewrite, link check   *)
(* and commit; and of the published page's script                          *)
(* (docs/assets/js/app.js): theme, mobile menu, scroll handling and        *)
(* section printing.                                                       *)
(*                                                                         *)
(* A path is a sequence of segments (<<"docs", "css", "site.css">>), the   *)
(* empty sequence being the repository's top directory.  A file's content  *)
(* is a sequence of items: the href/src attribute assignments the          *)
(* script's patterns look at, and the text between them.  A reference      *)
(* (URL) is a sequence of tokens: "/" separators, path segments, "#", "?"  *)
(* and scheme prefixes such as "http:".                                    *)
(***************************************************************************)
EXTENDS Integers, Sequences, FiniteSets, TLC

VARIABLES
    dryrun,         \* DRYRUN == "1"
    inGit,          \* git rev-parse --is-inside-work-tree succeeds
    backupIgnored,  \* .gitignore covers backup_before_reorg_*.tar.gz
    ignored,        \* the file names .gitignore covers
    wt,             \* working tree: file path -> content
    dirs,           \* working tree: the directories
    idx,            \* git index: tracked path -> staged content
    refs,           \* branch -> its commits (each a tree), oldest first
    branch,         \* the checked-out branch (HEAD)
    backup,         \* the backup archive: "none", "written", "failed"
    pc,             \* the statement of main() about to run
    i,              \* position in the list the current loop walks
    oct_src,        \* main's variable oct_src (<<>> is the empty string)
    exitCode,       \* the script's exit status, Running while it runs
    out,            \* what the script has printed, oldest first
    cmds,           \* the commands handed to run(), oldest first
    report,         \* the broken links link_check printed
    orig,           \* the tree, index and history the script was started on
    run             \* how many times the script has been started

\* The published page in a browser (docs/assets/js/app.js).
VARIABLES
    loaded,          \* DOMContentLoaded has fired and the listeners are bound
    storage,         \* localStorage: "ok", "readonly" (setItem throws) or
                     \* "unavailable" (getItem and setItem throw)
    stored,          \* localStorage's item "theme" ("none": no item)
    dataTheme,       \* <html data-theme> ("none": no attribute)
    ariaPressed,     \* aria-pressed of the theme toggles
    isOpen,          \* MobileMenu.isOpen
    hamburgerActive, \* #hamburger carries class "active"
    menuActive,      \* #mobileMenu carries class "active"
    ariaExpanded,    \* aria-expanded of #hamburger
    ariaHidden,      \* aria-hidden of #mobileMenu
    bodyOverflow,    \* document.body.style.overflow
    rafId,           \* Navigation.bind's rafId (0 is null)
    frames,          \* the animation-frame callbacks requested and not yet run
    lastFrame,       \* the id requestAnimationFrame returned last
    scrollY,         \* window.scrollY
    headerScrolled,  \* .nav-header carries class "scrolled"
    current,         \* the section whose nav link is marked active
    iframes,         \* the print iframes in the document: id -> stage
    prints,          \* how often print() was called on each iframe created
    requests         \* printSection calls so far

browser == <<loaded, storage, stored, dataTheme, ariaPressed, isOpen,
             hamburgerActive, menuActive, ariaExpanded, ariaHidden,
             bodyOverflow, rafId, frames, lastFrame, scrollY, headerScrolled,
             current, iframes, prints, requests>>

script == <<dryrun, inGit, backupIgnored, ignored, wt, dirs, idx, refs, branch,
            backup, pc, i, oct_src, exitCode, out, cmds, report, orig, run>>

vars == <<script, browser>>

\* The most features (tracked legacy items, pre-existing paths, environment
\* settings) a starting repository of the model combines.
MaxFeatures == 3

-----------------------------------------------------------------------------
(* Paths *)

WEBROOT == "docs"

W == <<WEBROOT>>

Running == -1

IsPrefix(p, q) ==
    /\ Len(p) <= Len(q)
    /\ SubSeq(q, 1, Len(p)) = p

Dirname(p) == SubSeq(p, 1, Len(p) - 1)

Basename(p) == p[Len(p)]

\* The directories mkdir -p makes sure of: the path and every one above it.
WithParents(p) == {SubSeq(p, 1, k) : k \in 1..Len(p)}

Last(s) == s[Len(s)]

EmptyTree == [p \in {} |-> <<>>]

\* The names find -name "*.html" and fn.endswith(".html") accept.
HtmlNames ==
    {"index.html", "jc_guide.html", "jc-october-2025.html", "JC-2025-10-14.html",
     "JC-JAN-2026.html", "summary-2025.html", "about.html"}

IsHtml(p) == Len(p) > 0 /\ Basename(p) \in HtmlNames


-----------------------------------------------------------------------------
(* File content: items, references *)

\* An href/src attribute assignment as the script's patterns see it: the
\* attribute name, whether blanks surround the "=", the quote ("dq" or "sq")
\* and the value.
Attr(name, q, url) ==
    [t |-> "attr", name |-> name, sp |-> FALSE, q |-> q, url |-> url, s |-> ""]

\* Text no pattern of the script matches.
Text(s) ==
    [t |-> "text", name |-> "", sp |-> FALSE, q |-> "", url |-> <<>>, s |-> s]

\* Text that carries a target without being an href/src attribute: the meta
\* refresh's content="0; url=..." and the script's location.replace("...").
Carrier(kind, url) ==
    [t |-> kind, name |-> "", sp |-> FALSE, q |-> "", url |-> url, s |-> ""]

StartsWith(u, pre) == IsPrefix(pre, u)

DropFirst(u, n) == SubSeq(u, n + 1, Len(u))

StubFor_FallbackHome(target) ==
    << Text("<!DOCTYPE html><html lang=en><head><meta charset>"),
       Carrier("refresh", target),
       Attr("href", "dq", target),
       Text("<title>Redirecting</title>"),
       Carrier("script", target),
       Text("</head><body><p>This page has moved."),
       Attr("href", "dq", <<"/">>),
       Text("Click here if you are not redirected.</a></p></body></html>") >>

\* The document write_redirect_stub writes for $target.
StubFor(target) ==
    << Text("<!DOCTYPE html><html lang=en><head><meta charset>"),
       Carrier("refresh", target),
       Attr("href", "dq", target),
       Text("<title>Redirecting</title>"),
       Carrier("script", target),
       Text("</head><body><p>This page has moved."),
       Attr("href", "dq", target),
       Text("Click here if you are not redirected.</a></p></body></html>") >>

IsStub(c) == Len(c) >= 2 /\ c = StubFor(c[2].url)

Subst_Nested(item, pre, dir) ==
    IF item.t = "attr" /\ item.q = "dq" /\ StartsWith(item.url, pre)
    THEN [item EXCEPT !.sp = FALSE,
                      !.url = <<dir, "/", "assets", "/">>
                                \o DropFirst(item.url, Len(pre))]
    ELSE item

\* One substitution of rewrite_asset_paths,
\*   s/(href|src)\s*=\s*"<pre>/$1="\/assets\/<dir>\//g
\* on one item: only a double-quoted value matches, and the replacement
\* writes the "=" without blanks.
Subst(item, pre, dir) ==
    IF item.t = "attr" /\ item.q = "dq" /\ StartsWith(item.url, pre)
    THEN [item EXCEPT !.sp = FALSE,
                      !.url = <<"/", "assets", "/", dir, "/">>
                                \o DropFirst(item.url, Len(pre))]
    ELSE item

\* The six substitutions of the perl program, in its order.
RewriteItem(item) ==
    LET s1 == Subst(item, <<".", "/", "css", "/">>, "css")
        s2 == Subst(s1, <<"css", "/">>, "css")
        s3 == Subst(s2, <<".", "/", "js", "/">>, "js")
        s4 == Subst(s3, <<"js", "/">>, "js")
        s5 == Subst(s4, <<".", "/", "img", "/">>, "img")
        s6 == Subst(s5, <<"img", "/">>, "img")
    IN  s6

\* perl -0777 -i -pe on one file.
RewriteContent(c) == [k \in 1..Len(c) |-> RewriteItem(c[k])]

-----------------------------------------------------------------------------
(* link_check: the embedded Python program *)

Lower(tok) ==
    CASE tok = "HTTP:" -> "http:"
      [] tok = "HTTPS:" -> "https:"
      [] tok = "MAILTO:" -> "mailto:"
      [] OTHER -> tok

LowerAll(u) == [k \in 1..Len(u) |-> Lower(u[k])]

\* u.split(tok, 1)[0]
BeforeFirst(u, tok) ==
    IF \E k \in 1..Len(u) : u[k] = tok
    THEN SubSeq(u, 1, (CHOOSE k \in 1..Len(u) :
                          /\ u[k] = tok
                          /\ \A j \in 1..(k - 1) : u[j] # tok) - 1)
    ELSE u

\* u.strip()
Strip(u) ==
    LET solid == {k \in 1..Len(u) : u[k] # " "}
    IN  IF solid = {} THEN <<>>
        ELSE SubSeq(u, CHOOSE a \in solid : \A k \in solid : a <= k,
                       CHOOSE b \in solid : \A k \in solid : b >= k)

normalize_url(u) == Strip(BeforeFirst(BeforeFirst(u, "#"), "?"))

is_ignored(u0) ==
    LET u == Strip(u0)
        low == LowerAll(u)
    IN  \/ u = <<>>
        \/ u[1] = "#"
        \/ StartsWith(low, <<"http:", "/", "/">>)
        \/ StartsWith(low, <<"https:", "/", "/">>)
        \/ low[1] \in {"mailto:", "tel:", "javascript:", "data:"}

\* url.lstrip("/")
RECURSIVE LStripSlash(_)
LStripSlash(u) ==
    IF u # <<>> /\ u[1] = "/" THEN LStripSlash(Tail(u)) ELSE u

\* The components of a path string, as str.split("/") gives them: the text
\* between the separators, empty where two separators meet or the string
\* ends in one.
RECURSIVE Comps(_, _)
Comps(u, cur) ==
    IF u = <<>> THEN <<cur>>
    ELSE IF u[1] = "/" THEN <<cur>> \o Comps(Tail(u), "")
    ELSE Comps(Tail(u), cur \o u[1])

\* os.path.normpath on a relative path's components: "" and "." dropped,
\* ".." cancelling the component before it.
RECURSIVE NormInto(_, _)
NormInto(done, rest) ==
    IF rest = <<>> THEN done
    ELSE LET c == Head(rest)
         IN  IF c \in {"", "."} THEN NormInto(done, Tail(rest))
             ELSE IF c = ".." /\ done # <<>> /\ Last(done) # ".."
                  THEN NormInto(Dirname(done), Tail(rest))
                  ELSE NormInto(Append(done, c), Tail(rest))

normpath(comps) == NormInto(<<>>, comps)

\* The operating system's walk along the components of a path from the
\* repository's top directory, over files F and directories D.
RECURSIVE Walk(_, _, _, _)
Walk(F, D, cur, rest) ==
    IF rest = <<>> THEN [ok |-> TRUE, p |-> cur]
    ELSE LET c == Head(rest)
         IN  IF ~(cur = <<>> \/ cur \in D) THEN [ok |-> FALSE, p |-> cur]
             ELSE IF c \in {"", "."} THEN Walk(F, D, cur, Tail(rest))
             ELSE IF c = ".."
                  THEN IF cur = <<>> THEN [ok |-> FALSE, p |-> cur]
                       ELSE Walk(F, D, Dirname(cur), Tail(rest))
             ELSE IF Append(cur, c) \in (DOMAIN F) \cup D
                  THEN Walk(F, D, Append(cur, c), Tail(rest))
                  ELSE [ok |-> FALSE, p |-> cur]

\* os.path.exists, os.path.isdir
PathExists(F, D, comps) == Walk(F, D, <<>>, comps).ok

PathIsDir(F, D, comps) ==
    LET r == Walk(F, D, <<>>, comps)
    IN  r.ok /\ (r.p = <<>> \/ r.p \in D)

\* os.path.join(target, "index.html")
JoinIndex(comps) ==
    IF comps # <<>> /\ Last(comps) = ""
    THEN Dirname(comps) \o <<"index.html">>
    ELSE comps \o <<"index.html">>

\* The path link_check looks for, for reference url in the file at path.
Target(F, D, path, url) ==
    LET t == IF StartsWith(url, <<"/">>)
             THEN W \o Comps(LStripSlash(url), "")
             ELSE normpath(Dirname(path) \o Comps(url, ""))
    IN  IF PathIsDir(F, D, t) THEN JoinIndex(t) ELSE t

\* The values attr_re.findall finds in a file: every href/src assignment
\* with a non-empty value, in either quote.
Found(c) == {n \in 1..Len(c) : c[n].t = "attr" /\ c[n].url # <<>>}

\* The list bad of link_check over the tree at WEBROOT: one entry for each
\* value found (n is its place in the file) that is not skipped and whose
\* target does not exist.
link_check(F, D) ==
    { [file |-> f, n |-> n,
       url |-> normalize_url(F[f][n].url),
       target |-> Target(F, D, f, normalize_url(F[f][n].url))] :
        <<f, n>> \in
          { x \in UNION { {<<g, m>> : m \in Found(F[g])} :
                          g \in {h \in DOMAIN F : IsPrefix(W, h) /\ IsHtml(h)} } :
              LET url == normalize_url(F[x[1]][x[2]].url)
              IN  /\ ~is_ignored(url)
                  /\ ~StartsWith(url, <<"/", "/">>)
                  /\ ~PathExists(F, D, Target(F, D, x[1], url)) } }

-----------------------------------------------------------------------------
(* The starting repository *)

Page(name, attrs) == <<Text(name)>> \o attrs

\* What the legacy items hold when the script starts.
InitialContent(p) ==
    CASE p = <<"index.html">> ->
           Page("index", << Attr("href", "dq", <<"#", "top">>),
                            Attr("href", "dq", <<"https:", "/", "/", "example.org">>) >>)
      [] p \in {<<"jc_guide.html">>, <<WEBROOT, "guide", "index.html">>,
                 <<WEBROOT, "jc_guide.html">>} ->
           Page("guide", << Attr("href", "dq", <<".", "/", "css", "/", "site.css">>),
                            Attr("src", "dq", <<"js", "/", "app.js">>),
                            Attr("href", "dq", <<"index.html", "#", "top">>) >>)
      [] p = <<"jc-october-2025.html">> ->
           Page("october", << Attr("src", "sq", <<"img", "/", "logo.png">>) >>)
      [] p = <<"JC-2025-10-14.html">> ->
           Page("oct14", << Attr("href", "dq", <<"/", "jc-october-2025.html">>) >>)
      [] p = <<"JC-JAN-2026.html">> ->
           Page("jan", << Attr("href", "dq", <<"mailto:", "jc@example.org">>),
                          Attr("href", "dq", <<"/">>) >>)
      [] p = <<"summary-2025.html">> ->
           Page("summary", << Attr("href", "dq", <<"?", "page=2">>) >>)
      [] p = <<"JC", "about.html">> ->
           Page("about", << Attr("href", "dq", <<"..", "/", "index.html">>),
                            Attr("href", "dq", <<"?", "tab=1">>) >>)
      [] OTHER -> <<Text(Basename(p))>>

\* The legacy items main() names, each with the files it stands for.
LegacyFiles(item) ==
    CASE item = "css" -> {<<"css", "site.css">>}
      [] item = "js" -> {<<"js", "app.js">>}
      [] item = "img" -> {<<"img", "logo.png">>}
      [] item = "downloads" -> {<<"downloads", "paper.pdf">>}
      [] item = "JC" -> {<<"JC", "about.html">>}
      [] OTHER -> {<<item>>}

LegacyItems ==
    {"css", "js", "img", "downloads", "JC", "index.html", "jc_guide.html",
     "jc-october-2025.html", "JC-2025-10-14.html", "JC-JAN-2026.html",
     "summary-2025.html", "JC-Pre-session-Sept-2025.pdf"}

\* Paths already tracked under the publish root before the script runs.
PreFiles(f) ==
    CASE f = "pre:assets" -> {<<WEBROOT, "assets", "css", "site.css">>,
                              <<WEBROOT, "assets", "js", "app.js">>}
      [] f = "pre:guide" -> {<<WEBROOT, "guide", "index.html">>}
      [] f = "pre:docs_css" -> {<<WEBROOT, "css", "old.css">>}
      [] f = "pre:docs_guide" -> {<<WEBROOT, "jc_guide.html">>}
      [] OTHER -> {}

PreFeatures == {"pre:assets", "pre:guide", "pre:docs_css", "pre:docs_guide"}

\* Untracked files: "ign:img" is covered by .gitignore, "untracked" is not.
UntrackedFiles(f) ==
    CASE f = "ign:img" -> {<<"img", "raw.png">>}
      [] f = "untracked" -> {<<"notes.txt">>}
      [] OTHER -> {}

EnvFeatures == {"notgit", "backupIgnored", "master"}

Features ==
    LegacyItems \cup PreFeatures \cup {"ign:img", "untracked", "modified"}
      \cup EnvFeatures

Scenarios == {S \in SUBSET Features : Cardinality(S) <= MaxFeatures}

TrackedAt(S) ==
    {<<"README.md">>}
      \cup UNION {LegacyFiles(f) : f \in S \cap LegacyItems}
      \cup UNION {PreFiles(f) : f \in S \cap PreFeatures}

FilesAt(S) == TrackedAt(S) \cup UNION {UntrackedFiles(f) : f \in S}

TreeOf(paths) == [p \in paths |-> InitialContent(p)]

\* The working tree the script starts on: with "modified", a tracked file
\* has an uncommitted edit.
StartTree(S) ==
    [p \in FilesAt(S) |->
        IF p = <<"README.md">> /\ "modified" \in S THEN <<Text("edited")>>
        ELSE InitialContent(p)]

DirsOf(paths) == UNION {WithParents(Dirname(p)) : p \in paths}

-----------------------------------------------------------------------------
(* The shell and git commands the script runs *)

\* A line of output or a command: its kind and up to two paths or targets.
Ev(k, a, b) == [k |-> k, a |-> a, b |-> b]

Say(k) == Ev(k, <<>>, <<>>)

\* What run() prints for a command under DRYRUN=1.
Echo(c) == Ev("[DRYRUN] " \o c.k, c.a, c.b)

EchoAll(cs) == [k \in 1..Len(cs) |-> Echo(cs[k])]

\* The lines a failing command or check prints before the script ends.
FatalKinds ==
    {"ERROR: Not inside a git repository.", "ERROR: Working tree not clean.",
     "tar: failed", "mkdir: failed", "cat: failed", "fatal: git mv", "fatal: git add",
     "git commit: nothing added to commit", "BROKEN LINKS FOUND:"}

HasFatal(o) == \E k \in 1..Len(o) : o[k].k \in FatalKinds

ErrExit_Never(code) == FALSE

\* set -euo pipefail: a command that returns a non-zero status ends the
\* script with that status.
ErrExit(code) == code # 0

Exists(p) == p \in DOMAIN wt \/ p \in dirs

\* git ls-files --error-unmatch "$path": the path or something under it is
\* in the index.
is_tracked(p) == \E q \in DOMAIN idx : IsPrefix(p, q)

ShouldMove_ExistsOnly(src) == Exists(src)

\* The condition of git_mv_if_exists_and_tracked: [[ -e "$src" ]] && is_tracked "$src"
ShouldMove(src) == Exists(src) /\ is_tracked(src)

HeadTree == IF branch \in DOMAIN refs THEN Last(refs[branch]) ELSE EmptyTree

\* [[ -n "$(git status --porcelain)" ]]: something is staged, changed in the
\* working tree, or untracked and not ignored.
StatusNonEmpty ==
    \/ idx # HeadTree
    \/ \E p \in DOMAIN idx : p \notin DOMAIN wt \/ wt[p] # idx[p]
    \/ \E p \in DOMAIN wt : p \notin DOMAIN idx /\ Basename(p) \notin ignored
    \/ backup # "none" /\ ~backupIgnored

PreflightOk_GitOnly == inGit

\* require_clean_git lets the script go on.
PreflightOk == inGit /\ ~StatusNonEmpty

\* mkdir -p succeeds unless a file is where a directory is needed.
MkdirOk(F, ps) == \A p \in ps : WithParents(p) \cap DOMAIN F = {}

MkdirP(D, ps) == D \cup UNION {WithParents(p) : p \in ps}

\* Where git mv puts the source: into the destination when that is an
\* existing directory, at the destination otherwise.
GitMvDst(D, src, dst) == IF dst \in D THEN Append(dst, Basename(src)) ELSE dst

\* git mv succeeds: the source is tracked, nothing is at the place it goes
\* to, and the directory above that place exists.
GitMvOk(F, D, I, src, dst) ==
    LET ed == GitMvDst(D, src, dst)
    IN  /\ src \in DOMAIN F \/ src \in D
        /\ \E q \in DOMAIN I : IsPrefix(src, q)
        /\ ed \notin DOMAIN F /\ ed \notin D
        /\ Dirname(ed) = <<>> \/ Dirname(ed) \in D
        /\ ~IsPrefix(src, ed)

MovePath(p, src, ed) ==
    IF IsPrefix(src, p) THEN ed \o DropFirst(p, Len(src)) ELSE p

\* A tree (working tree or index) after the rename of src to ed.
MoveTree(F, src, ed) ==
    [q \in {MovePath(p, src, ed) : p \in DOMAIN F} |->
        F[CHOOSE p \in DOMAIN F : MovePath(p, src, ed) = q]]

MoveDirs(D, src, ed) == {MovePath(d, src, ed) : d \in D}

\* A tree with one more file, or one file replaced.
WithFile(F, p, c) ==
    [q \in DOMAIN F \cup {p} |-> IF q = p THEN c ELSE F[q]]

LinkCheckStatus_AlwaysZero(bad) == 0

\* The exit status of the Python program: sys.exit(2) when bad is not empty.
LinkCheckStatus(bad) == IF bad # {} THEN 2 ELSE 0

-----------------------------------------------------------------------------
(* main(): the statements in their order *)

Main_BackupLate ==
    << "require_clean_git", "mkdir_webroot", "backup_repo", "flatten",
       "commit_flatten", "mkdirs", "assets",
       "guide_mv", "guide_orphan", "guide_checkout", "guide_stub", "guide_add",
       "oct_pick", "oct_mv", "oct_stub1", "oct_stub2", "oct_add",
       "jan_mv", "jan_stub", "jan_add",
       "sum_mv", "sum_stub", "sum_add",
       "rewrite_asset_paths", "link_check", "commit_structure", "finish", "done" >>

Main ==
    << "require_clean_git", "backup_repo", "mkdir_webroot", "flatten",
       "commit_flatten", "mkdirs", "assets",
       "guide_mv", "guide_orphan", "guide_checkout", "guide_stub", "guide_add",
       "oct_pick", "oct_mv", "oct_stub1", "oct_stub2", "oct_add",
       "jan_mv", "jan_stub", "jan_add",
       "sum_mv", "sum_stub", "sum_add",
       "rewrite_asset_paths", "link_check", "commit_structure", "finish", "done" >>

After_SkipCheck(l) ==
    IF l = "rewrite_asset_paths" THEN "commit_structure"
    ELSE Main[(CHOOSE k \in 1..Len(Main) : Main[k] = l) + 1]

\* The statement after statement l.
After(l) == Main[(CHOOSE k \in 1..Len(Main) : Main[k] = l) + 1]

FlattenNames ==
    << "css", "js", "img", "downloads", "JC", "index.html", "jc_guide.html",
       "jc-october-2025.html", "JC-2025-10-14.html", "JC-JAN-2026.html",
       "summary-2025.html", "JC-Pre-session-Sept-2025.pdf" >>

\* The moves of the flatten phase: each legacy item into the publish root.
FlattenMoves ==
    [k \in 1..Len(FlattenNames) |->
        [src |-> <<FlattenNames[k]>>, dst |-> <<WEBROOT, FlattenNames[k]>>]]

\* The four mkdir -p commands that lay out the clean structure.
MkdirCmds ==
    << {<<WEBROOT, "assets", "css">>, <<WEBROOT, "assets", "js">>,
        <<WEBROOT, "assets", "img">>},
       {<<WEBROOT, "guide">>},
       {<<WEBROOT, "sessions", "2025", "10">>, <<WEBROOT, "sessions", "2026", "01">>},
       {<<WEBROOT, "summaries", "2025">>} >>

AssetNames == <<"css", "js", "img">>

AssetMoves ==
    [k \in 1..Len(AssetNames) |->
        [src |-> <<WEBROOT, AssetNames[k]>>,
         dst |-> <<WEBROOT, "assets", AssetNames[k]>>]]

\* The legacy documents: where each is after the flatten phase, where the
\* restructure phase moves it, and the target its stub names.
GuideDoc ==
    [src |-> <<WEBROOT, "jc_guide.html">>,
     dst |-> <<WEBROOT, "guide", "index.html">>,
     target |-> <<"/", "guide", "/">>]

OctDoc_LegacyFirst ==
    [first |-> <<WEBROOT, "jc-october-2025.html">>,
     second |-> <<WEBROOT, "JC-2025-10-14.html">>,
     dst |-> <<WEBROOT, "sessions", "2025", "10", "index.html">>,
     target |-> <<"/", "sessions", "/", "2025", "/", "10", "/">>]

OctDoc ==
    [first |-> <<WEBROOT, "JC-2025-10-14.html">>,
     second |-> <<WEBROOT, "jc-october-2025.html">>,
     dst |-> <<WEBROOT, "sessions", "2025", "10", "index.html">>,
     target |-> <<"/", "sessions", "/", "2025", "/", "10", "/">>]

JanDoc ==
    [src |-> <<WEBROOT, "JC-JAN-2026.html">>,
     dst |-> <<WEBROOT, "sessions", "2026", "01", "index.html">>,
     target |-> <<"/", "sessions", "/", "2026", "/", "01", "/">>]

SummaryDoc_TargetHome ==
    [src |-> <<WEBROOT, "summary-2025.html">>,
     dst |-> <<WEBROOT, "summaries", "2025", "index.html">>,
     target |-> <<"/">>]

SummaryDoc ==
    [src |-> <<WEBROOT, "summary-2025.html">>,
     dst |-> <<WEBROOT, "summaries", "2025", "index.html">>,
     target |-> <<"/", "summaries", "/", "2025", "/">>]

-----------------------------------------------------------------------------
(* Steps *)

Env == <<dryrun, inGit, backupIgnored, ignored, orig, run, browser>>

Goto(l) ==
    /\ pc' = l
    /\ i' = 1
    /\ exitCode' = exitCode

\* The loop over list goes on with its next element, or main() with the
\* statement after the loop.
Advance(list) ==
    IF i < Len(list)
    THEN pc' = pc /\ i' = i + 1 /\ exitCode' = exitCode
    ELSE Goto(After(pc))

\* A command returned status code: under set -e the script ends with it.
Die(code, cont) ==
    IF ErrExit(code)
    THEN pc' = "exit" /\ i' = 1 /\ exitCode' = code
    ELSE cont

\* git_mv_if_exists_and_tracked src dst
MoveIfTracked(src, dst, cont) ==
    LET mk == Ev("mkdir -p", Dirname(dst), <<>>)
        mv == Ev("git mv", src, dst)
        d1 == MkdirP(dirs, {Dirname(dst)})
        ed == GitMvDst(d1, src, dst)
    IN  IF ~ShouldMove(src)
        THEN /\ out' = Append(out, Ev("Skipping (not tracked or missing):", src, <<>>))
             /\ UNCHANGED <<wt, dirs, idx, cmds>>
             /\ cont
        ELSE IF dryrun
        THEN /\ out' = out \o <<Echo(mk), Echo(mv)>>
             /\ cmds' = cmds \o <<mk, mv>>
             /\ UNCHANGED <<wt, dirs, idx>>
             /\ cont
        ELSE IF ~MkdirOk(wt, {Dirname(dst)})
        THEN /\ out' = Append(out, Ev("mkdir: failed", Dirname(dst), <<>>))
             /\ cmds' = Append(cmds, mk)
             /\ UNCHANGED <<wt, dirs, idx>>
             /\ Die(1, cont)
        ELSE IF ~GitMvOk(wt, d1, idx, src, dst)
        THEN /\ out' = Append(out, Ev("fatal: git mv", src, ed))
             /\ cmds' = cmds \o <<mk, mv>>
             /\ dirs' = d1
             /\ UNCHANGED <<wt, idx>>
             /\ Die(128, cont)
        ELSE /\ out' = out
             /\ cmds' = cmds \o <<mk, mv>>
             /\ wt' = MoveTree(wt, src, ed)
             /\ dirs' = MoveDirs(d1, src, ed)
             /\ idx' = MoveTree(idx, src, ed)
             /\ cont

\* run "git mv \"$src\" \"$dst\""
BareMv(src, dst, cont) ==
    LET mv == Ev("git mv", src, dst)
        ed == GitMvDst(dirs, src, dst)
    IN  /\ cmds' = Append(cmds, mv)
        /\ IF dryrun
           THEN /\ out' = Append(out, Echo(mv))
                /\ UNCHANGED <<wt, dirs, idx>>
                /\ cont
           ELSE IF ~GitMvOk(wt, dirs, idx, src, dst)
           THEN /\ out' = Append(out, Ev("fatal: git mv", src, ed))
                /\ UNCHANGED <<wt, dirs, idx>>
                /\ Die(128, cont)
           ELSE /\ out' = out
                /\ wt' = MoveTree(wt, src, ed)
                /\ dirs' = MoveDirs(dirs, src, ed)
                /\ idx' = MoveTree(idx, src, ed)
                /\ cont

\* write_redirect_stub path target
WriteStub(path, target, cont) ==
    LET c == Ev("cat >", path, target)
    IN  /\ cmds' = Append(cmds, c)
        /\ UNCHANGED <<dirs, idx>>
        /\ IF dryrun
           THEN out' = Append(out, Echo(c)) /\ wt' = wt /\ cont
           ELSE IF path \in dirs \/ Dirname(path) \notin dirs
           THEN out' = Append(out, Ev("cat: failed", path, <<>>)) /\ wt' = wt /\ Die(1, cont)
           ELSE out' = out /\ wt' = WithFile(wt, path, StubFor(target)) /\ cont

\* if [[ "$DRYRUN" != "1" ]]; then git add paths; fi
GitAdd(paths, cont) ==
    /\ UNCHANGED <<wt, dirs, cmds>>
    /\ IF dryrun
       THEN out' = out /\ idx' = idx /\ cont
       ELSE IF \E p \in paths : p \notin DOMAIN wt
       THEN out' = Append(out, Say("fatal: git add")) /\ idx' = idx /\ Die(128, cont)
       ELSE /\ out' = out
            /\ idx' = [q \in DOMAIN idx \cup paths |->
                          IF q \in paths THEN wt[q] ELSE idx[q]]
            /\ cont

\* if DRYRUN != 1: commit when git status --porcelain prints something
Commit(msg, nothing, cont) ==
    /\ UNCHANGED <<wt, dirs, idx, cmds, branch>>
    /\ IF dryrun
       THEN out' = out /\ refs' = refs /\ cont
       ELSE IF ~StatusNonEmpty
       THEN out' = Append(out, Say(nothing)) /\ refs' = refs /\ cont
       ELSE IF idx = HeadTree
       THEN /\ out' = Append(out, Say("git commit: nothing added to commit"))
            /\ refs' = refs
            /\ Die(1, cont)
       ELSE /\ out' = Append(out, Say(msg))
            /\ refs' = [b \in DOMAIN refs \cup {branch} |->
                          IF b # branch THEN refs[b]
                          ELSE IF b \in DOMAIN refs THEN Append(refs[b], idx)
                          ELSE <<idx>>]
            /\ cont

\* No page of the site is open in a browser while the script runs.
NoPage ==
    /\ loaded = FALSE
    /\ storage = "ok"
    /\ stored = "none"
    /\ dataTheme = "none"
    /\ ariaPressed = "none"
    /\ isOpen = FALSE
    /\ hamburgerActive = FALSE
    /\ menuActive = FALSE
    /\ ariaExpanded = "false"
    /\ ariaHidden = "true"
    /\ bodyOverflow = ""
    /\ rafId = 0
    /\ frames = {}
    /\ lastFrame = 0
    /\ scrollY = 0
    /\ headerScrolled = FALSE
    /\ current = "none"
    /\ iframes = <<>>
    /\ prints = <<>>
    /\ requests = <<>>

-----------------------------------------------------------------------------
(* The pipeline *)

Init ==
    \E S \in Scenarios, d \in BOOLEAN :
        /\ dryrun = d
        /\ inGit = ("notgit" \notin S)
        /\ backupIgnored = ("backupIgnored" \in S)
        /\ ignored = (IF "ign:img" \in S THEN {"raw.png"} ELSE {})
        /\ wt = StartTree(S)
        /\ dirs = DirsOf(FilesAt(S))
        /\ idx = (IF "notgit" \in S THEN EmptyTree ELSE TreeOf(TrackedAt(S)))
        /\ branch = (IF "master" \in S THEN "master" ELSE "main")
        /\ refs = (IF "notgit" \in S THEN [b \in {} |-> <<>>]
                   ELSE [b \in {branch} |-> <<idx>>])
        /\ backup = "none"
        /\ pc = "require_clean_git"
        /\ i = 1
        /\ oct_src = <<>>
        /\ exitCode = Running
        /\ out = <<>>
        /\ cmds = <<>>
        /\ report = {}
        /\ orig = [wt |-> wt, dirs |-> dirs, idx |-> idx, refs |-> refs,
                   branch |-> branch]
        /\ run = 1
        /\ NoPage

RequireCleanGit ==
    /\ pc = "require_clean_git"
    /\ IF PreflightOk
       THEN out' = out /\ Goto(After(pc))
       ELSE /\ out' = Append(out, Say(IF inGit THEN "ERROR: Working tree not clean."
                                      ELSE "ERROR: Not inside a git repository."))
            /\ pc' = "exit" /\ i' = 1 /\ exitCode' = 1
    /\ UNCHANGED <<Env, wt, dirs, idx, refs, branch, backup, oct_src, cmds, report>>

\* The statuses GNU tar fails with: 1 when a file changed while it was read,
\* 2 on a fatal error (the archive cannot be opened or written).
TarFailures == {1, 2}

\* backup_repo: tar may succeed or fail (a full disk; "file changed as we
\* read it", the archive being written into the directory it archives).
BackupRepo ==
    LET tar == Ev("tar -czf", <<"backup_before_reorg.tar.gz">>, <<>>)
    IN  /\ pc = "backup_repo"
        /\ cmds' = Append(cmds, tar)
        /\ \/ /\ dryrun
              /\ backup' = backup
              /\ out' = out \o <<Say("Creating backup"), Echo(tar), Say("Backup created")>>
              /\ Goto(After(pc))
           \/ /\ ~dryrun
              /\ backup' = "written"
              /\ out' = out \o <<Say("Creating backup"), Say("Backup created")>>
              /\ Goto(After(pc))
           \/ /\ ~dryrun
              /\ backup' = "failed"
              /\ out' = out \o <<Say("Creating backup"), Say("tar: failed")>>
              /\ \E code \in TarFailures : Die(code, Goto(After(pc)))
        /\ UNCHANGED <<Env, wt, dirs, idx, refs, branch, oct_src, report>>

MkdirWebroot_NoDryRun ==
    LET mk == Ev("mkdir -p", W, <<>>)
    IN  /\ pc = "mkdir_webroot"
        /\ cmds' = Append(cmds, mk)
        /\ IF ~MkdirOk(wt, {W})
           THEN /\ out' = out \o <<Say("Preparing web root"), Say("mkdir: failed")>>
                /\ dirs' = dirs
                /\ Die(1, Goto(After(pc)))
           ELSE /\ out' = Append(out, Say("Preparing web root"))
                /\ dirs' = MkdirP(dirs, {W})
                /\ Goto(After(pc))
        /\ UNCHANGED <<Env, wt, idx, refs, branch, backup, oct_src, report>>

MkdirWebroot ==
    LET mk == Ev("mkdir -p", W, <<>>)
    IN  /\ pc = "mkdir_webroot"
        /\ cmds' = Append(cmds, mk)
        /\ IF dryrun
           THEN /\ out' = out \o <<Say("Preparing web root"), Echo(mk)>>
                /\ dirs' = dirs
                /\ Goto(After(pc))
           ELSE IF ~MkdirOk(wt, {W})
           THEN /\ out' = out \o <<Say("Preparing web root"), Say("mkdir: failed")>>
                /\ dirs' = dirs
                /\ Die(1, Goto(After(pc)))
           ELSE /\ out' = Append(out, Say("Preparing web root"))
                /\ dirs' = MkdirP(dirs, {W})
                /\ Goto(After(pc))
        /\ UNCHANGED <<Env, wt, idx, refs, branch, backup, oct_src, report>>

Flatten ==
    /\ pc = "flatten"
    /\ MoveIfTracked(FlattenMoves[i].src, FlattenMoves[i].dst, Advance(FlattenMoves))
    /\ UNCHANGED <<Env, refs, branch, backup, oct_src, report>>

CommitFlatten ==
    /\ pc = "commit_flatten"
    /\ Commit("chore: move site content into web root",
              "No tracked moves detected (maybe already moved).", Goto(After(pc)))
    /\ UNCHANGED <<Env, backup, oct_src, report>>

Mkdirs ==
    LET mk == Ev("mkdir -p", <<"structure">>, <<>>)
    IN  /\ pc = "mkdirs"
        /\ cmds' = Append(cmds, mk)
        /\ IF dryrun
           THEN out' = Append(out, Echo(mk)) /\ dirs' = dirs /\ Advance(MkdirCmds)
           ELSE IF ~MkdirOk(wt, MkdirCmds[i])
           THEN /\ out' = Append(out, Say("mkdir: failed"))
                /\ dirs' = dirs
                /\ Die(1, Advance(MkdirCmds))
           ELSE out' = out /\ dirs' = MkdirP(dirs, MkdirCmds[i]) /\ Advance(MkdirCmds)
        /\ UNCHANGED <<Env, wt, idx, refs, branch, backup, oct_src, report>>

\* if [[ -d "$WEBROOT/css" ]]; then git_mv_if_exists_and_tracked ...; fi
Assets ==
    /\ pc = "assets"
    /\ IF AssetMoves[i].src \in dirs
       THEN MoveIfTracked(AssetMoves[i].src, AssetMoves[i].dst, Advance(AssetMoves))
       ELSE UNCHANGED <<wt, dirs, idx, cmds, out>> /\ Advance(AssetMoves)
    /\ UNCHANGED <<Env, refs, branch, backup, oct_src, report>>

\* if [[ -f src ]]; then run "git mv src dst"; ...; fi
DocMv(l, doc, fi) ==
    /\ pc = l
    /\ IF doc.src \in DOMAIN wt
       THEN BareMv(doc.src, doc.dst, Goto(After(l)))
       ELSE UNCHANGED <<wt, dirs, idx, cmds, out>> /\ Goto(fi)
    /\ UNCHANGED <<Env, refs, branch, backup, oct_src, report>>

DocStub(l, path, target) ==
    /\ pc = l
    /\ WriteStub(path, target, Goto(After(l)))
    /\ UNCHANGED <<Env, refs, branch, backup, oct_src, report>>

DocAdd(l, paths) ==
    /\ pc = l
    /\ GitAdd(paths, Goto(After(l)))
    /\ UNCHANGED <<Env, refs, branch, backup, oct_src, report>>

GuideMv == DocMv("guide_mv", GuideDoc, "oct_pick")

\* run "git checkout --orphan __tmp__ >/dev/null 2>&1 || true": HEAD moves
\* to the unborn branch __tmp__; the index and the working tree stay.
GuideOrphan ==
    LET c == Ev("git checkout --orphan", <<"__tmp__">>, <<>>)
    IN  /\ pc = "guide_orphan"
        /\ cmds' = Append(cmds, c)
        /\ out' = (IF dryrun THEN Append(out, Echo(c)) ELSE out)
        /\ branch' = (IF ~dryrun /\ "__tmp__" \notin DOMAIN refs THEN "__tmp__"
                      ELSE branch)
        /\ Goto(After(pc))
        /\ UNCHANGED <<Env, wt, dirs, idx, refs, backup, oct_src, report>>

\* run "git checkout main >/dev/null 2>&1 || true": when main exists, a
\* two-way merge from HEAD's tree (empty on an unborn branch) to main's:
\* a path of main that neither the index nor HEAD's tree has is checked
\* out again; without a branch main, HEAD stays where it is.
GuideCheckout ==
    LET c == Ev("git checkout", <<"main">>, <<>>)
        M == Last(refs["main"])
        back == {p \in DOMAIN M : p \notin DOMAIN idx /\ p \notin DOMAIN HeadTree}
        clash ==
            \/ \E p \in DOMAIN idx \cap DOMAIN M :
                  /\ idx[p] # M[p]
                  /\ p \notin DOMAIN HeadTree \/ HeadTree[p] # M[p]
            \/ \E p \in back : p \in DOMAIN wt \/ p \in dirs
    IN  /\ pc = "guide_checkout"
        /\ cmds' = Append(cmds, c)
        /\ out' = (IF dryrun THEN Append(out, Echo(c)) ELSE out)
        /\ IF dryrun \/ "main" \notin DOMAIN refs \/ clash
           THEN UNCHANGED <<wt, dirs, idx, branch>>
           ELSE /\ branch' = "main"
                /\ idx' = [p \in DOMAIN idx \cup back |->
                              IF p \in back THEN M[p] ELSE idx[p]]
                /\ wt' = [p \in DOMAIN wt \cup back |->
                             IF p \in back THEN M[p] ELSE wt[p]]
                /\ dirs' = dirs \cup DirsOf(back)
        /\ Goto(After(pc))
        /\ UNCHANGED <<Env, refs, backup, oct_src, report>>

GuideStub == DocStub("guide_stub", GuideDoc.src, GuideDoc.target)

GuideAdd == DocAdd("guide_add", {GuideDoc.src})

\* oct_src: JC-2025-10-14.html when it is there, else jc-october-2025.html
OctPick ==
    /\ pc = "oct_pick"
    /\ oct_src' = (IF OctDoc.first \in DOMAIN wt THEN OctDoc.first
                   ELSE IF OctDoc.second \in DOMAIN wt THEN OctDoc.second
                   ELSE <<>>)
    /\ Goto(After(pc))
    /\ UNCHANGED <<Env, wt, dirs, idx, refs, branch, backup, out, cmds, report>>

OctMv ==
    /\ pc = "oct_mv"
    /\ IF oct_src # <<>>
       THEN BareMv(oct_src, OctDoc.dst, Goto(After(pc)))
       ELSE UNCHANGED <<wt, dirs, idx, cmds, out>> /\ Goto("jan_mv")
    /\ UNCHANGED <<Env, refs, branch, backup, oct_src, report>>

OctStub1 == DocStub("oct_stub1", OctDoc.first, OctDoc.target)

OctStub2 == DocStub("oct_stub2", OctDoc.second, OctDoc.target)

OctAdd == DocAdd("oct_add", {OctDoc.first, OctDoc.second})

JanMv == DocMv("jan_mv", JanDoc, "sum_mv")

JanStub == DocStub("jan_stub", JanDoc.src, JanDoc.target)

JanAdd == DocAdd("jan_add", {JanDoc.src})

SumMv == DocMv("sum_mv", SummaryDoc, "rewrite_asset_paths")

SumStub == DocStub("sum_stub", SummaryDoc.src, SummaryDoc.target)

SumAdd == DocAdd("sum_add", {SummaryDoc.src})

\* rewrite_asset_paths: every *.html file under WEBROOT, edited in place
RewriteAssetPaths ==
    /\ pc = "rewrite_asset_paths"
    /\ IF dryrun
       THEN /\ out' = out \o <<Say("Rewriting asset paths"),
                               Say("[DRYRUN] Would rewrite paths")>>
            /\ wt' = wt
       ELSE /\ out' = Append(out, Say("Rewriting asset paths"))
            /\ wt' = [p \in DOMAIN wt |->
                         IF IsPrefix(W, p) /\ IsHtml(p) THEN RewriteContent(wt[p])
                         ELSE wt[p]]
    /\ Goto(After(pc))
    /\ UNCHANGED <<Env, dirs, idx, refs, branch, backup, oct_src, cmds, report>>

LinkCheck ==
    LET bad == link_check(wt, dirs)
    IN  /\ pc = "link_check"
        /\ IF dryrun
           THEN /\ out' = out \o <<Say("Running local link check"),
                                   Say("[DRYRUN] Would run link check")>>
                /\ report' = report
                /\ Goto(After(pc))
           ELSE IF LinkCheckStatus(bad) # 0
           THEN /\ out' = out \o <<Say("Running local link check"),
                                   Say("BROKEN LINKS FOUND:")>>
                /\ report' = bad
                /\ Die(LinkCheckStatus(bad), Goto(After(pc)))
           ELSE /\ out' = out \o <<Say("Running local link check"),
                                   Say("Link check passed.")>>
                /\ report' = report
                /\ Goto(After(pc))
        /\ UNCHANGED <<Env, wt, dirs, idx, refs, branch, backup, oct_src, cmds>>

CommitStructure ==
    /\ pc = "commit_structure"
    /\ Commit("refactor: organize site into sessions, guide, assets",
              "No changes to commit (already organized?).", Goto(After(pc)))
    /\ UNCHANGED <<Env, backup, oct_src, report>>

Finish ==
    /\ pc = "finish"
    /\ out' = out \o <<Say("DONE"), Say("Next steps:")>>
    /\ pc' = After(pc)
    /\ i' = 1
    /\ exitCode' = 0
    /\ UNCHANGED <<Env, wt, dirs, idx, refs, branch, backup, oct_src, cmds, report>>

Next ==
    \/ RequireCleanGit
    \/ BackupRepo
    \/ MkdirWebroot
    \/ Flatten
    \/ CommitFlatten
    \/ Mkdirs
    \/ Assets
    \/ GuideMv
    \/ GuideOrphan
    \/ GuideCheckout
    \/ GuideStub
    \/ GuideAdd
    \/ OctPick
    \/ OctMv
    \/ OctStub1
    \/ OctStub2
    \/ OctAdd
    \/ JanMv
    \/ JanStub
    \/ JanAdd
    \/ SumMv
    \/ SumStub
    \/ SumAdd
    \/ RewriteAssetPaths
    \/ LinkCheck
    \/ CommitStructure
    \/ Finish

Spec == Init /\ [][Next]_vars

-----------------------------------------------------------------------------
(* The run as the orchestrator's state machine *)

PhaseOrder ==
    << "Idle", "PreflightChecked", "BackedUp", "Flattened", "Restructured",
       "Rewritten", "Validated", "Done" >>

\* The state of the orchestrator: the last phase that has completed.
Phase ==
    CASE pc = "require_clean_git" -> "Idle"
      [] pc = "backup_repo" -> "PreflightChecked"
      [] pc \in {"mkdir_webroot", "flatten", "commit_flatten"} -> "BackedUp"
      [] pc = "rewrite_asset_paths" -> "Restructured"
      [] pc = "link_check" -> "Rewritten"
      [] pc \in {"commit_structure", "finish"} -> "Validated"
      [] pc = "done" -> "Done"
      [] pc = "exit" -> "Failed"
      [] OTHER -> "Flattened"

PhaseIndex(ph) == CHOOSE k \in 1..Len(PhaseOrder) : PhaseOrder[k] = ph

Printed(line) == \E k \in 1..Len(out) : out[k].k = line

\* Nothing of the repository differs from what the script was started on.
Unmutated ==
    /\ wt = orig.wt
    /\ dirs = orig.dirs
    /\ idx = orig.idx
    /\ refs = orig.refs
    /\ branch = orig.branch

\* The starting repository fails the preflight check.
PreflightViolated ==
    \/ ~inGit
    \/ orig.idx # Last(orig.refs[orig.branch])
    \/ \E p \in DOMAIN orig.idx : p \notin DOMAIN orig.wt \/ orig.wt[p] # orig.idx[p]
    \/ \E p \in DOMAIN orig.wt : p \notin DOMAIN orig.idx /\ Basename(p) \notin ignored

\* C1: when the working directory is not inside a git work tree, or git
\* status --porcelain is not empty, the script ends with a non-zero status
\* before any mutation: no backup archive, no directory, move, stub or
\* rewrite, and nothing handed to run().
C1_PreflightFatal ==
    PreflightViolated =>
        /\ pc \in {"require_clean_git", "exit"}
        /\ pc = "exit" => exitCode = 1
        /\ Unmutated
        /\ backup = "none"
        /\ cmds = <<>>

C1_Witness ==
    /\ pc = "exit"
    /\ inGit
    /\ \E p \in DOMAIN orig.wt : p \notin DOMAIN orig.idx /\ Basename(p) \notin ignored
    /\ Printed("ERROR: Working tree not clean.")

Mutated == ~Unmutated \/ \E k \in 1..Len(cmds) : cmds[k].k # "tar -czf"

\* C2: in a run that is not a dry run the backup archive is written before
\* the first change to the site tree (mkdir, move, stub, rewrite, commit),
\* and when writing the archive fails the run ends in failure with none of
\* those changes made.
C2_BackupFirst ==
    ~dryrun =>
        /\ Mutated => backup = "written"
        /\ backup = "failed" =>
              /\ pc = "exit"
              /\ exitCode \notin {0, Running}
              /\ ~Mutated

C2_Witness == ~dryrun /\ backup = "written" /\ wt # orig.wt /\ idx # orig.idx

PhaseStep ==
    \/ Phase' = Phase
    \/ Phase' = "Failed" /\ Phase # "Done"
    \/ /\ Phase \notin {"Failed", "Done"}
       /\ Phase' # "Failed"
       /\ PhaseIndex(Phase') = PhaseIndex(Phase) + 1

\* C3 (as the code has it): the phases occur only in the order Idle,
\* PreflightChecked, BackedUp, Flattened, Restructured, Rewritten, Validated,
\* Done, each step going to the next phase or to Failed, and a run that is
\* not a dry run reaches Done only after the link check has passed on the
\* tree it leaves behind.
C3_PhaseOrder ==
    /\ [][PhaseStep]_vars
    /\ [](pc = "done" /\ ~dryrun =>
             /\ Printed("Link check passed.")
             /\ link_check(wt, dirs) = {})

C3_Witness == pc = "done" /\ ~dryrun /\ Printed("Link check passed.") /\ wt # orig.wt

\* C3 as stated: in every run, dry runs included, Done is reached only after
\* the link check has passed.
C3_DoneOnlyAfterLinkCheckPassed ==
    /\ [][PhaseStep]_vars
    /\ [](pc = "done" => Printed("Link check passed."))

\* C4: Failed is absorbing. Once a fatal condition has occurred the run is
\* at its exit with a non-zero status, no step of the pipeline is enabled
\* any more, and DONE is never reported.
C4_FailedAbsorbing ==
    HasFatal(out) =>
        /\ pc = "exit"
        /\ exitCode \notin {0, Running}
        /\ ~Printed("DONE")
        /\ ~ENABLED Next

C4_Witness == pc = "exit" /\ Printed("fatal: git mv") /\ backup = "written"

\* C5: when the link check finds a violation the script ends with status 2
\* and the violations reported, nothing of the repository changes in that
\* step or after it (no commit of the restructure), and what was moved,
\* stubbed and rewritten before the check stays as it is.
C5_LinkFailureStops ==
    /\ [][(pc = "link_check" /\ ~dryrun /\ link_check(wt, dirs) # {}) =>
            /\ pc' = "exit"
            /\ exitCode' = 2
            /\ report' = link_check(wt, dirs)
            /\ UNCHANGED <<wt, dirs, idx, refs, branch, backup>>]_vars
    /\ [](Printed("BROKEN LINKS FOUND:") =>
            /\ pc = "exit"
            /\ exitCode = 2
            /\ report = link_check(wt, dirs)
            /\ ~Printed("refactor: organize site into sessions, guide, assets")
            /\ ~ENABLED Next)

C5_Witness ==
    /\ pc = "exit"
    /\ exitCode = 2
    /\ report # {}
    /\ \E p \in DOMAIN wt : IsStub(wt[p])
    /\ wt # orig.wt

-----------------------------------------------------------------------------
(* The link check's report *)

\* A value the checker is to skip, judged on the raw attribute value: empty,
\* an anchor, an external or non-file scheme, or protocol-relative.
Ignorable(u) ==
    \/ u = <<>>
    \/ u[1] = "#"
    \/ Lower(u[1]) \in {"http:", "https:", "mailto:", "tel:", "javascript:", "data:"}
    \/ StartsWith(u, <<"/", "/">>)

HtmlUnder(F) == {f \in DOMAIN F : IsPrefix(W, f) /\ IsHtml(f)}

\* The local references of the tree that do not resolve: file, place of the
\* value in the file, and the candidate path that does not exist.
Unresolved(F, D) ==
    { [file |-> x[1], n |-> x[2],
       target |-> Target(F, D, x[1], normalize_url(F[x[1]][x[2]].url))] :
        x \in { y \in UNION { {<<f, n>> : n \in 1..Len(F[f])} : f \in HtmlUnder(F) } :
                  /\ F[y[1]][y[2]].t = "attr"
                  /\ ~Ignorable(F[y[1]][y[2]].url)
                  /\ ~PathExists(F, D, Target(F, D, y[1],
                                              normalize_url(F[y[1]][y[2]].url))) } }

LinkCheckRan ==
    ~dryrun /\ (Printed("Link check passed.") \/ Printed("BROKEN LINKS FOUND:"))

\* C6: what link_check reports is exactly the set of local references that
\* do not resolve: one entry for each href/src value that is not ignorable
\* and whose candidate path does not exist, and none when every local
\* reference resolves.
C6_ReportsExactlyUnresolved ==
    LinkCheckRan =>
        {[file |-> r.file, n |-> r.n, target |-> r.target] : r \in report}
            = Unresolved(wt, dirs)

-----------------------------------------------------------------------------
(* Relocations and their stubs *)

RestructureDone ==
    /\ ~dryrun
    /\ pc \in {"rewrite_asset_paths", "link_check", "commit_structure", "finish", "done"}

\* The relocations of legacy documents the restructure phase can make.
DocMoves ==
    { [src |-> GuideDoc.src, dst |-> GuideDoc.dst],
      [src |-> OctDoc.first, dst |-> OctDoc.dst],
      [src |-> OctDoc.second, dst |-> OctDoc.dst],
      [src |-> JanDoc.src, dst |-> JanDoc.dst],
      [src |-> SummaryDoc.src, dst |-> SummaryDoc.dst] }

AssetDirMoves == {AssetMoves[k] : k \in 1..Len(AssetMoves)}

Relocated(m) == \E k \in 1..Len(cmds) : cmds[k] = Ev("git mv", m.src, m.dst)

\* The file content c is a redirect stub all of whose targets (meta refresh,
\* canonical link, script, fallback link) are t.
StubTo(c, t) ==
    /\ Len(c) = 8
    /\ c[2].t = "refresh" /\ c[3].t = "attr" /\ c[5].t = "script" /\ c[7].t = "attr"
    /\ \A k \in {2, 3, 5, 7} : c[k].url = t
    /\ \A k \in {1, 4, 6, 8} : c[k].t = "text"

\* A stub is at path, and its target resolves to the file at dst.
StubbedTo(path, dst) ==
    /\ path \in DOMAIN wt
    /\ Len(wt[path]) >= 2
    /\ StubTo(wt[path], wt[path][2].url)
    /\ dst \in DOMAIN wt
    /\ Target(wt, dirs, path, wt[path][2].url) = dst

-----------------------------------------------------------------------------
(* The canonical layout *)

Succeeded == pc = "done" /\ ~dryrun /\ exitCode = 0

\* Content new is content old apart from href/src values rewritten to the
\* /assets/ prefix.
SameApartFromAssets(new, old) ==
    /\ Len(new) = Len(old)
    /\ \A k \in 1..Len(old) :
          \/ new[k] = old[k]
          \/ /\ old[k].t = "attr" /\ new[k].t = "attr"
             /\ new[k].name = old[k].name
             /\ StartsWith(new[k].url, <<"/", "assets", "/">>)

LegacyDocs ==
    { [name |-> "jc_guide.html", index |-> <<WEBROOT, "guide", "index.html">>,
       target |-> <<"/", "guide", "/">>],
      [name |-> "JC-JAN-2026.html",
       index |-> <<WEBROOT, "sessions", "2026", "01", "index.html">>,
       target |-> <<"/", "sessions", "/", "2026", "/", "01", "/">>],
      [name |-> "summary-2025.html",
       index |-> <<WEBROOT, "summaries", "2025", "index.html">>,
       target |-> <<"/", "summaries", "/", "2025", "/">>] }

HeldAtCanonical(d) ==
    /\ d.index \in DOMAIN wt
    /\ SameApartFromAssets(wt[d.index], orig.wt[<<d.name>>])
    /\ <<WEBROOT, d.name>> \in DOMAIN wt
    /\ StubTo(wt[<<WEBROOT, d.name>>], d.target)

\* C8: after a successful run that is not a dry run, each of jc_guide.html,
\* JC-JAN-2026.html and summary-2025.html that was tracked at the top level
\* has its original content, apart from rewritten asset paths, at its
\* canonical index, and a stub naming the canonical directory URL at its
\* legacy name under the publish root.
C8_LegacyDocsRelocated ==
    Succeeded =>
        \A d \in LegacyDocs : <<d.name>> \in DOMAIN orig.idx => HeldAtCanonical(d)

C8_Witness ==
    /\ Succeeded
    /\ \E d \in LegacyDocs :
          /\ <<d.name>> \in DOMAIN orig.idx
          /\ HeldAtCanonical(d)
          /\ wt[d.index] # orig.wt[<<d.name>>]

\* C9: once the restructure phase of a run that is not a dry run is over,
\* every file that was tracked at css/, js/ or img/ is at the same relative
\* path under the publish root's assets/ directory, and nothing is left at
\* the publish root's css/, js/ or img/.
C9_AssetsAtCanonical ==
    RestructureDone =>
        \A p \in DOMAIN orig.idx :
            (Len(p) > 1 /\ p[1] \in {"css", "js", "img"}) =>
                /\ (<<WEBROOT, "assets">> \o p) \in DOMAIN wt
                /\ <<WEBROOT, p[1]>> \notin dirs
                /\ \A q \in DOMAIN wt : ~IsPrefix(<<WEBROOT, p[1]>>, q)

-----------------------------------------------------------------------------
(* Skipped moves *)

\* The call of git_mv_if_exists_and_tracked the script is about to make.
MoveCalled == pc = "flatten" \/ (pc = "assets" /\ AssetMoves[i].src \in dirs)

MoveCall == IF pc = "flatten" THEN FlattenMoves[i] ELSE AssetMoves[i]

Skippable(src) ==
    \/ src \notin DOMAIN wt /\ src \notin dirs
    \/ \A q \in DOMAIN idx : ~IsPrefix(src, q)

-----------------------------------------------------------------------------
(* Moves onto an existing destination *)

\* Something is at path d already: a file, or a directory that holds
\* something.
OccupiedAt(d) ==
    \/ d \in DOMAIN wt
    \/ d \in dirs /\ \E q \in DOMAIN wt \cup dirs : q # d /\ IsPrefix(d, q)

\* The step hands a git mv to run() in a run that is not a dry run.
MoveAttempted ==
    /\ ~dryrun
    /\ Len(cmds') > Len(cmds)
    /\ cmds'[Len(cmds')].k = "git mv"

\* C11: whenever a move is attempted onto a destination that exists already
\* and is not empty, file or directory, the move fails, the working tree and
\* the index stay as they were (nothing is put in or under the destination)
\* and the pipeline ends in failure.
C11_OccupiedDestinationFatal ==
    [][(MoveAttempted /\ OccupiedAt(cmds'[Len(cmds')].b)) =>
          /\ pc' = "exit"
          /\ exitCode' \notin {0, Running}
          /\ wt' = wt
          /\ idx' = idx]_vars

-----------------------------------------------------------------------------
(* Dry runs *)

\* C14: with DRYRUN=1, from any starting tree, nothing is changed: working
\* tree, directories, index, commit history and checked-out branch are what
\* they were at the start, in every state of the run, and no backup archive
\* is written.
C14_DryRunChangesNothing == dryrun => (Unmutated /\ backup = "none")

C14_Witness ==
    /\ dryrun
    /\ pc = "done"
    /\ \E k \in 1..Len(out) : out[k].k = "[DRYRUN] git mv"
    /\ \E k \in 1..Len(out) : out[k].k = "[DRYRUN] tar -czf"
    /\ \E k \in 1..Len(out) : out[k].k = "[DRYRUN] cat >"
    /\ \E k \in 1..Len(out) : out[k].k = "[DRYRUN] git checkout --orphan"

\* The steps a real run makes for legacy document d once it has been
\* flattened: its move to the canonical index and the stub at its old name.
PlannedFor(d) ==
    /\ \E k \in 1..Len(cmds) : cmds[k] = Ev("git mv", <<WEBROOT, d.name>>, d.index)
    /\ \E k \in 1..Len(cmds) : cmds[k] = Ev("cat >", <<WEBROOT, d.name>>, d.target)

\* Legacy document d is tracked at the top level and neither its place in
\* the publish root nor its canonical index is taken.
ToRelocate(d) ==
    /\ <<d.name>> \in DOMAIN orig.idx
    /\ <<WEBROOT, d.name>> \notin DOMAIN orig.wt
    /\ d.index \notin DOMAIN orig.wt

\* C15: a dry run shows the steps a real run on the same tree makes, each as
\* a descriptive no-op: for a legacy document tracked at the top level the
\* finished dry run has shown its move to the canonical index and the
\* write of its stub, as the real run performs them.
C15_DryRunShowsPlan ==
    (dryrun /\ pc = "done") => \A d \in LegacyDocs : ToRelocate(d) => PlannedFor(d)

-----------------------------------------------------------------------------
(* Exit status and commits *)

Finished == pc \in {"done", "exit"}

\* C16: the exit status is 0 exactly when the run reaches Done, and it is
\* 2, the status kept for a failed link check, exactly when the link check
\* found a violation; every other failure ends with another non-zero
\* status.
C16_ExitStatus ==
    Finished =>
        /\ exitCode = 0 <=> pc = "done"
        /\ exitCode = 2 <=> Printed("BROKEN LINKS FOUND:")

\* C17: no step of the pipeline creates a commit: in every state of every
\* run the commit history and the checked-out branch are those of the
\* start.
C17_NoCommit == refs = orig.refs /\ branch = orig.branch

-----------------------------------------------------------------------------
(* The October 2025 session *)

Oct14 == <<WEBROOT, "JC-2025-10-14.html">>

OctLegacy == <<WEBROOT, "jc-october-2025.html">>

OctIndex == <<WEBROOT, "sessions", "2025", "10", "index.html">>

\* C19: the content moved to sessions/2025/10/index.html is that of
\* JC-2025-10-14.html when this file exists under the publish root, else
\* that of jc-october-2025.html when this one exists; when neither exists
\* no move is made, and an October stub is never written without the
\* October move before it.
C19_OctoberCanonical ==
    /\ [][(pc = "oct_mv" /\ ~dryrun /\ pc' # "exit") =>
            IF Oct14 \in DOMAIN wt
            THEN OctIndex \in DOMAIN wt' /\ wt'[OctIndex] = wt[Oct14]
            ELSE IF OctLegacy \in DOMAIN wt
            THEN OctIndex \in DOMAIN wt' /\ wt'[OctIndex] = wt[OctLegacy]
            ELSE wt' = wt /\ idx' = idx /\ cmds' = cmds /\ pc' = "jan_mv"]_vars
    /\ [](\A k \in 1..Len(cmds) :
            (cmds[k].k = "cat >" /\ cmds[k].a \in {Oct14, OctLegacy}) =>
                \E j \in 1..(k - 1) : cmds[j].k = "git mv" /\ cmds[j].b = OctIndex)

C19_Witness ==
    /\ ~dryrun
    /\ pc = "oct_stub1"
    /\ <<"JC-2025-10-14.html">> \in DOMAIN orig.idx
    /\ OctIndex \in DOMAIN wt
    /\ wt[OctIndex] = orig.wt[<<"JC-2025-10-14.html">>]
    /\ OctLegacy \in DOMAIN wt

\* C20: the restructure phase loses no page: once it is over, in a run that
\* is not a dry run, the content of every HTML document that was tracked
\* before the run is at some path under the publish root, rewritten asset
\* paths apart.
C20_NoContentLost ==
    RestructureDone =>
        \A p \in DOMAIN orig.idx :
            IsHtml(p) =>
                \E q \in DOMAIN wt :
                    IsPrefix(W, q) /\ SameApartFromAssets(wt[q], orig.wt[p])

-----------------------------------------------------------------------------
(* The variant script (docs/assets/js/app.js): its rewrite *)

\* The prefixes one substitution of the variant matches,
\*   s/(href|src)\s*=\s*"\.?(\/)?<dir>\//$1="\/assets\/<dir>\//g
\* an optional "." and an optional "/" before <dir>/.
VariantPrefixes(dir) ==
    { <<dir, "/">>, <<".", dir, "/">>, <<"/", dir, "/">>, <<".", "/", dir, "/">> }

VariantSubst(item, dir) ==
    IF /\ item.t = "attr"
       /\ item.q = "dq"
       /\ \E pre \in VariantPrefixes(dir) : StartsWith(item.url, pre)
    THEN LET pre == CHOOSE x \in VariantPrefixes(dir) : StartsWith(item.url, x)
         IN  [item EXCEPT !.sp = FALSE,
                          !.url = <<"/", "assets", "/", dir, "/">>
                                    \o DropFirst(item.url, Len(pre))]
    ELSE item

\* The three substitutions of the variant's perl program, in its order.
VariantRewriteItem(item) ==
    VariantSubst(VariantSubst(VariantSubst(item, "css"), "js"), "img")

VariantRewriteContent(c) == [k \in 1..Len(c) |-> VariantRewriteItem(c[k])]

-----------------------------------------------------------------------------
(* One page under the rewrite and the link check *)

\* The most href/src assignments the page under test holds.
MaxAttrs == 1

\* The most passes of the rewrite over the same tree.
MaxPasses == 2

\* Reference values: legacy asset prefixes in every spelling, values the
\* rewrite must leave alone, and values of each class of the link check.
Urls ==
    { <<"css", "/", "site.css">>, <<".", "/", "css", "/", "site.css">>,
      <<"/", "css", "/", "site.css">>, <<"..", "/", "css", "/", "site.css">>,
      <<".", "css", "/", "site.css">>, <<"styles", "/", "css", "/", "site.css">>,
      <<"css", "/", "js", "/", "app.js">>,
      <<"js", "/", "app.js">>, <<".", "/", "img", "/", "logo.png">>,
      <<"/", "assets", "/", "css", "/", "site.css">>,
      <<"index.html">>, <<"..", "/", "index.html", "#", "top">>,
      <<"?", "page=2">>, <<"#", "top">>, <<"/">>, <<"/", "guide", "/">>,
      <<"..", "/", "guide">>, <<"/", "downloads", "/">>, <<"missing.html">>,
      <<"https:", "/", "/", "example.org">>, <<"HTTPS:", "/", "/", "example.org">>,
      <<"http:", "x.html">>, <<"mailto:", "jc@example.org">>,
      <<"/", "/", "cdn.example.org", "/", "x.js">> }

\* How an assignment is written: attribute, quote, blanks around "=".
AttrForms ==
    { <<"href", "dq", FALSE>>, <<"src", "dq", FALSE>>,
      <<"href", "sq", FALSE>>, <<"href", "dq", TRUE>> }

TestAttrs == {[Attr(f[1], f[2], u) EXCEPT !.sp = f[3]] : f \in AttrForms, u \in Urls}

TestPages ==
    {Page("about", as) : as \in UNION {[1..n -> TestAttrs] : n \in 0..MaxAttrs}}

PageUnderTest == <<WEBROOT, "JC", "about.html">>

\* The reorganized site around the page under test.
SiteWith(pg) ==
    [p \in { <<"README.md">>, <<WEBROOT, "index.html">>,
             <<WEBROOT, "guide", "index.html">>,
             <<WEBROOT, "assets", "css", "site.css">>,
             <<WEBROOT, "downloads", "paper.pdf">>, PageUnderTest } |->
        IF p = PageUnderTest THEN pg ELSE <<Text(Basename(p))>>]

\* A clean, reorganized repository with the page under test, about to be
\* rewritten by the script ("perl"), by the variant ("variant_perl"), or
\* about to be checked ("link_check").
InitPage ==
    \E pg \in TestPages, step \in {"perl", "variant_perl", "link_check"} :
        /\ dryrun = FALSE
        /\ inGit = TRUE
        /\ backupIgnored = TRUE
        /\ ignored = {}
        /\ wt = SiteWith(pg)
        /\ dirs = DirsOf(DOMAIN wt)
        /\ idx = wt
        /\ branch = "main"
        /\ refs = [b \in {"main"} |-> <<idx>>]
        /\ backup = "written"
        /\ pc = step
        /\ i = 1
        /\ oct_src = <<>>
        /\ exitCode = Running
        /\ out = <<>>
        /\ cmds = <<>>
        /\ report = {}
        /\ orig = [wt |-> wt, dirs |-> dirs, idx |-> idx, refs |-> refs,
                   branch |-> branch]
        /\ run = 1
        /\ NoPage

\* find "$WEBROOT" -name "*.html" -type f | perl -0777 -i -pe '...': one
\* pass of the script's substitutions over every page under the publish
\* root.
RewritePass ==
    /\ pc = "perl"
    /\ i <= MaxPasses
    /\ wt' = [p \in DOMAIN wt |->
                 IF IsPrefix(W, p) /\ IsHtml(p) THEN RewriteContent(wt[p])
                 ELSE wt[p]]
    /\ i' = i + 1
    /\ UNCHANGED <<Env, dirs, idx, refs, branch, backup, pc, oct_src, exitCode,
                   out, cmds, report>>

\* The same pass with the variant's substitutions.
VariantRewritePass ==
    /\ pc = "variant_perl"
    /\ i <= MaxPasses
    /\ wt' = [p \in DOMAIN wt |->
                 IF IsPrefix(W, p) /\ IsHtml(p) THEN VariantRewriteContent(wt[p])
                 ELSE wt[p]]
    /\ i' = i + 1
    /\ UNCHANGED <<Env, dirs, idx, refs, branch, backup, pc, oct_src, exitCode,
                   out, cmds, report>>

NextPage == RewritePass \/ VariantRewritePass \/ LinkCheck

PageSpec == InitPage /\ [][NextPage]_vars

\* C12: rewrite_asset_paths is idempotent, in the script and in its
\* variant: a pass over a tree that a pass has already rewritten changes
\* nothing.
C12_RewriteIdempotent ==
    [][(pc \in {"perl", "variant_perl"} /\ i >= 2) => wt' = wt]_vars

C12_Witness ==
    /\ pc = "perl"
    /\ i = 3
    /\ wt # orig.wt
    /\ wt[PageUnderTest][2].url = <<"/", "assets", "/", "css", "/", "site.css">>

\* The rewritten form of a value that starts with css/, js/ or img/, with
\* or without ./ before it; the value itself otherwise.
LegacyDir(u) ==
    IF Len(u) >= 2 /\ u[1] \in {"css", "js", "img"} /\ u[2] = "/" THEN u[1]
    ELSE IF /\ Len(u) >= 4 /\ u[1] = "." /\ u[2] = "/"
            /\ u[3] \in {"css", "js", "img"} /\ u[4] = "/" THEN u[3]
    ELSE ""

Canonical(u) ==
    IF LegacyDir(u) = "" THEN u
    ELSE <<"/", "assets", "/", LegacyDir(u), "/">>
           \o DropFirst(u, IF u[1] = "." THEN 4 ELSE 2)

\* C13: a pass of rewrite_asset_paths changes an href/src value exactly
\* when it starts with css/, js/ or img/, with or without ./ before it, to
\* /assets/<dir>/<rest>; every other value and all other text of every
\* file stays as it was.
C13_RewriteFrame ==
    [][pc = "perl" =>
          /\ DOMAIN wt' = DOMAIN wt
          /\ \A p \in DOMAIN wt :
                /\ Len(wt'[p]) = Len(wt[p])
                /\ \A k \in 1..Len(wt[p]) :
                      wt'[p][k] = IF wt[p][k].t = "attr"
                                  THEN [wt[p][k] EXCEPT !.url = Canonical(wt[p][k].url)]
                                  ELSE wt[p][k]]_vars

\* C18: link_check skips a reference exactly when its raw value is empty,
\* starts with #, with one of the schemes http:, https:, mailto:, tel:,
\* javascript:, data:, or with //; every other value, one that is only a
\* query string included, is stripped of fragment and query, resolved, and
\* reported when what it resolves to does not exist.
C18_SkipRule ==
    (pc \in {"commit_structure", "exit"}) =>
        \A n \in 1..Len(wt[PageUnderTest]) :
            LET it == wt[PageUnderTest][n]
                reported == \E r \in report : r.file = PageUnderTest /\ r.n = n
            IN  it.t = "attr" =>
                  IF Ignorable(it.url) THEN ~reported
                  ELSE reported <=>
                         ~PathExists(wt, dirs,
                                     Target(wt, dirs, PageUnderTest, normalize_url(it.url)))

\* A tracked move of the flatten phase was performed.
FlattenMoved == \E k \in 1..Len(cmds) : cmds[k].k = "git mv"

\* git commit was run by the step: it made a commit or it failed.
CommitAttempted ==
    \/ refs' # refs
    \/ /\ Len(out') > Len(out)
       /\ out'[Len(out')] = Say("git commit: nothing added to commit")

\* C22: after the flatten phase of a real run a commit is attempted only
\* if a tracked move was performed; when every move was skipped no commit
\* is attempted, "No tracked moves detected" is reported and the run goes
\* on to the restructure phase, also with the backup archive untracked in
\* the working tree.
C22_FlattenCommitOnlyAfterMoves ==
    [][(pc = "commit_flatten" /\ ~dryrun) =>
          /\ CommitAttempted => FlattenMoved
          /\ ~FlattenMoved =>
                /\ out' = Append(out, Say("No tracked moves detected (maybe already moved)."))
                /\ pc' = "mkdirs"
                /\ exitCode' = Running]_vars

-----------------------------------------------------------------------------
(* Running the script again *)

\* The most times the script is started on one repository.
MaxRuns == 2

\* What git add -A stages: every file of the working tree that .gitignore
\* does not cover.
AddAll(F) == [p \in {q \in DOMAIN F : Basename(q) \notin ignored} |-> F[p]]

\* After a real run that ended with DONE, the user commits what the run
\* left uncommitted (the rewritten pages), removes the backup archive
\* unless .gitignore covers it, and starts the script again on the clean
\* repository.
RunAgain ==
    /\ pc = "done"
    /\ exitCode = 0
    /\ ~dryrun
    /\ run < MaxRuns
    /\ run' = run + 1
    /\ idx' = AddAll(wt)
    /\ refs' = IF AddAll(wt) = HeadTree THEN refs
               ELSE [b \in DOMAIN refs \cup {branch} |->
                        IF b # branch THEN refs[b]
                        ELSE IF b \in DOMAIN refs THEN Append(refs[b], AddAll(wt))
                        ELSE <<AddAll(wt)>>]
    /\ backup' = "none"
    /\ pc' = "require_clean_git"
    /\ i' = 1
    /\ oct_src' = <<>>
    /\ exitCode' = Running
    /\ out' = <<>>
    /\ cmds' = <<>>
    /\ report' = {}
    /\ orig' = [wt |-> wt, dirs |-> dirs, idx |-> idx', refs |-> refs',
                branch |-> branch]
    /\ UNCHANGED <<dryrun, inGit, backupIgnored, ignored, wt, dirs, branch,
                   browser>>

NextRerun == Next \/ RunAgain

RerunSpec == Init /\ [][NextRerun]_vars

\* The canonical documents of the clean structure.
CanonicalDocs == {GuideDoc.dst, OctDoc.dst, JanDoc.dst, SummaryDoc.dst}

\* C21: a second run on the clean, committed result of a successful run
\* is harmless: every move is skipped, no canonical document is replaced
\* by a stub or otherwise changed, and the run, unless tar fails to write
\* the backup, reaches DONE reporting that there was nothing to move and
\* nothing to commit.
C21_RerunHarmless ==
    run = 2 =>
        /\ \A k \in 1..Len(cmds) : cmds[k].k # "git mv"
        /\ \A p \in CanonicalDocs \cap DOMAIN orig.wt :
               p \in DOMAIN wt /\ wt[p] = orig.wt[p]
        /\ exitCode \in {Running, 0} \/ backup = "failed"
        /\ pc = "done" =>
              /\ \E k \in 1..Len(out) :
                    out[k] = Say("No tracked moves detected (maybe already moved).")
              /\ \E k \in 1..Len(out) :
                    out[k] = Say("No changes to commit (already organized?).")

-----------------------------------------------------------------------------
(* The published page: docs/assets/js/app.js *)

\* The script is not running while a reader has the page open.
ScriptIdle ==
    /\ dryrun = FALSE
    /\ inGit = TRUE
    /\ backupIgnored = TRUE
    /\ ignored = {}
    /\ wt = EmptyTree
    /\ dirs = {}
    /\ idx = EmptyTree
    /\ branch = "main"
    /\ refs = [b \in {"main"} |-> <<EmptyTree>>]
    /\ backup = "none"
    /\ pc = "require_clean_git"
    /\ i = 1
    /\ oct_src = <<>>
    /\ exitCode = Running
    /\ out = <<>>
    /\ cmds = <<>>
    /\ report = {}
    /\ orig = [wt |-> wt, dirs |-> dirs, idx |-> idx, refs |-> refs,
               branch |-> branch]
    /\ run = 1

themeVars == <<stored, dataTheme, ariaPressed>>

menuVars == <<isOpen, hamburgerActive, menuActive, ariaExpanded, ariaHidden,
              bodyOverflow>>

navVars == <<rafId, frames, lastFrame, scrollY, headerScrolled, current>>

printVars == <<iframes, prints, requests>>

(* ThemeManager *)

LIGHT == "light"

DARK == "dark"

\* localStorage.getItem(this.KEY) inside try/catch: pref stays null ("none")
\* when there is no item or getItem throws.
getItem == IF storage = "unavailable" THEN "none" ELSE stored

set_NoStore(theme) ==
    /\ dataTheme' = theme
    /\ stored' = stored
    /\ ariaPressed' = IF theme = DARK THEN "true" ELSE "false"

\* ThemeManager.set(theme)
set(theme) ==
    /\ dataTheme' = theme
    /\ stored' = IF storage = "ok" THEN theme ELSE stored
    /\ ariaPressed' = IF theme = DARK THEN "true" ELSE "false"

\* ThemeManager.applyInitial()
applyInitial == set(IF getItem = "none" THEN LIGHT ELSE getItem)

\* ThemeManager.toggle()
toggle == set(IF dataTheme = DARK THEN LIGHT ELSE DARK)

(* MobileMenu *)

open_KeepAriaHidden ==
    /\ isOpen' = TRUE
    /\ hamburgerActive' = TRUE
    /\ menuActive' = TRUE
    /\ ariaExpanded' = "true"
    /\ ariaHidden' = ariaHidden
    /\ bodyOverflow' = "hidden"

\* MobileMenu.open()
open ==
    /\ isOpen' = TRUE
    /\ hamburgerActive' = TRUE
    /\ menuActive' = TRUE
    /\ ariaExpanded' = "true"
    /\ ariaHidden' = "false"
    /\ bodyOverflow' = "hidden"

\* MobileMenu.close()
close ==
    /\ isOpen' = FALSE
    /\ hamburgerActive' = FALSE
    /\ menuActive' = FALSE
    /\ ariaExpanded' = "false"
    /\ ariaHidden' = "true"
    /\ bodyOverflow' = ""

\* MobileMenu.toggle()
menuToggle == IF isOpen THEN close ELSE open

\* this._onDocClick: an open menu closes unless the click is inside the
\* hamburger or the menu.
onDocClick(inside) ==
    IF isOpen /\ ~inside THEN close ELSE UNCHANGED menuVars

(* Navigation *)

\* The page's section[id] elements with offsetTop and offsetHeight.
Sections ==
    << [id |-> "intro", top |-> 0, h |-> 300],
       [id |-> "sessions", top |-> 300, h |-> 300] >>

\* The scroll positions the reader moves between.
Positions == {0, 150, 250, 600}

\* updateActive(): the last section with top <= scrollY + 120 < top + h,
\* null ("none") when there is none.
Active(y) ==
    LET hit == {k \in 1..Len(Sections) :
                   y + 120 >= Sections[k].top
                   /\ y + 120 < Sections[k].top + Sections[k].h}
    IN  IF hit = {} THEN "none"
        ELSE Sections[CHOOSE k \in hit : \A j \in hit : j <= k].id

\* Navigation.onScroll() at scroll position y
navOnScroll(y) ==
    /\ headerScrolled' = (y > 100)
    /\ current' = Active(y)

\* The most animation frames the page requests.
MaxFrames == 3

\* The scroll listener of Navigation.bind:
\* if (rafId) return; rafId = requestAnimationFrame(...)
onScrollEvent ==
    IF rafId # 0 THEN UNCHANGED <<rafId, frames, lastFrame>>
    ELSE /\ rafId' = lastFrame + 1
         /\ frames' = frames \cup {lastFrame + 1}
         /\ lastFrame' = lastFrame + 1

frameCallback_KeepId(f) ==
    /\ navOnScroll(scrollY)
    /\ rafId' = rafId
    /\ frames' = frames \ {f}

\* The callback handed to requestAnimationFrame:
\* () => { this.onScroll(); rafId = null; }
frameCallback(f) ==
    /\ navOnScroll(scrollY)
    /\ rafId' = 0
    /\ frames' = frames \ {f}

(* printSection *)

\* The most printSection calls of the model.
MaxPrints == 2

\* The values of data-print-section on the page's print buttons.
PrintIds == {"intro", "missing"}

\* document.getElementById(sectionId) finds an element.
HasElement(id) == \E k \in 1..Len(Sections) : Sections[k].id = id

Without(f, n) == [k \in DOMAIN f \ {n} |-> f[k]]

\* printSection(sectionId): nothing without the element; otherwise a hidden
\* iframe is appended and onReady is set to run 60 ms from now (the
\* document is complete) or 60 ms after the iframe's load event.
printSection(id, complete) ==
    /\ requests' = Append(requests, id)
    /\ IF ~HasElement(id) THEN UNCHANGED <<iframes, prints>>
       ELSE /\ iframes' = iframes @@
                   ((Len(requests) + 1) :> IF complete THEN "timer60" ELSE "load")
            /\ prints' = prints @@ ((Len(requests) + 1) :> 0)

\* What happens inside onReady's try block.
Outcomes == {"printed", "print throws", "focus throws"}

onReady_NoFinally(n, outcome) ==
    /\ prints' = [prints EXCEPT ![n] = IF outcome = "focus throws" THEN @ ELSE @ + 1]
    /\ iframes' = [iframes EXCEPT ![n] = IF outcome = "printed" THEN "timer400"
                                         ELSE "abandoned"]

\* onReady: try { focus(); print() } finally { setTimeout(remove, 400) }
onReady(n, outcome) ==
    /\ prints' = [prints EXCEPT ![n] = IF outcome = "focus throws" THEN @ ELSE @ + 1]
    /\ iframes' = [iframes EXCEPT ![n] = "timer400"]

(* The page's events *)

StorageModes == {"ok", "readonly", "unavailable"}

\* A browser about to load the page: localStorage holds no theme or one
\* an earlier visit stored.
InitApp ==
    /\ ScriptIdle
    /\ loaded = FALSE
    /\ storage \in StorageModes
    /\ stored \in {"none", LIGHT, DARK}
    /\ dataTheme = "none"
    /\ ariaPressed = "none"
    /\ isOpen = FALSE
    /\ hamburgerActive = FALSE
    /\ menuActive = FALSE
    /\ ariaExpanded = "false"
    /\ ariaHidden = "true"
    /\ bodyOverflow = ""
    /\ rafId = 0
    /\ frames = {}
    /\ lastFrame = 0
    /\ scrollY = 0
    /\ headerScrolled = FALSE
    /\ current = "none"
    /\ iframes = <<>>
    /\ prints = <<>>
    /\ requests = <<>>

\* DOMContentLoaded: new ThemeManager().init(); new Navigation().init()
DOMContentLoaded ==
    /\ ~loaded
    /\ loaded' = TRUE
    /\ applyInitial
    /\ navOnScroll(scrollY)
    /\ UNCHANGED <<script, storage, menuVars, rafId, frames, lastFrame, scrollY,
                   printVars>>

\* The reader leaves or reloads the page: the beforeunload listeners run
\* (destroy(), removeEventListener) and the document with its timers and
\* frame requests is discarded; localStorage stays.
Unload ==
    /\ loaded
    /\ loaded' = FALSE
    /\ dataTheme' = "none"
    /\ ariaPressed' = "none"
    /\ close
    /\ rafId' = 0
    /\ frames' = {}
    /\ scrollY' = 0
    /\ headerScrolled' = FALSE
    /\ current' = "none"
    /\ iframes' = <<>>
    /\ UNCHANGED <<script, storage, stored, lastFrame, prints, requests>>

\* A click on #themeToggle or #mobileThemeToggle, inside the menu or not.
ThemeToggleClick ==
    /\ loaded
    /\ toggle
    /\ \E inside \in BOOLEAN : onDocClick(inside)
    /\ UNCHANGED <<script, loaded, storage, navVars, printVars>>

\* A click on #hamburger: preventDefault, stopPropagation, toggle().
HamburgerClick ==
    /\ loaded
    /\ menuToggle
    /\ UNCHANGED <<script, loaded, storage, themeVars, navVars, printVars>>

\* A click on a .mobile-menu-link: close(), then the document's listener
\* finds the menu closed.
MenuLinkClick ==
    /\ loaded
    /\ close
    /\ UNCHANGED <<script, loaded, storage, themeVars, navVars, printVars>>

\* keydown with key "Escape"
EscapeKey ==
    /\ loaded
    /\ IF isOpen THEN close ELSE UNCHANGED menuVars
    /\ UNCHANGED <<script, loaded, storage, themeVars, navVars, printVars>>

\* A click anywhere else, inside the menu or outside hamburger and menu.
DocumentClick ==
    /\ loaded
    /\ \E inside \in BOOLEAN : onDocClick(inside)
    /\ UNCHANGED <<script, loaded, storage, themeVars, navVars, printVars>>

\* A scroll event at a new position.
Scroll ==
    /\ loaded
    /\ rafId # 0 \/ lastFrame < MaxFrames
    /\ \E y \in Positions \ {scrollY} : scrollY' = y
    /\ onScrollEvent
    /\ UNCHANGED <<script, loaded, storage, themeVars, menuVars, headerScrolled,
                   current, printVars>>

\* The browser runs a requested animation-frame callback.
AnimationFrame ==
    /\ loaded
    /\ \E f \in frames : frameCallback(f)
    /\ UNCHANGED <<script, loaded, storage, themeVars, menuVars, lastFrame,
                   scrollY, printVars>>

\* A click on a [data-print-section] button: the print delegation and the
\* menu's document listener both run.
PrintClick ==
    /\ loaded
    /\ Len(requests) < MaxPrints
    /\ \E id \in PrintIds, complete \in BOOLEAN : printSection(id, complete)
    /\ \E inside \in BOOLEAN : onDocClick(inside)
    /\ UNCHANGED <<script, loaded, storage, themeVars, navVars>>

\* The iframe's load event: setTimeout(onReady, 60), once.
IframeLoad(n) ==
    /\ loaded
    /\ n \in DOMAIN iframes
    /\ iframes[n] = "load"
    /\ iframes' = [iframes EXCEPT ![n] = "timer60"]
    /\ UNCHANGED <<script, loaded, storage, themeVars, menuVars, navVars, prints,
                   requests>>

\* The 60 ms timer fires: onReady runs.
ReadyTimer(n) ==
    /\ loaded
    /\ n \in DOMAIN iframes
    /\ iframes[n] = "timer60"
    /\ \E outcome \in Outcomes : onReady(n, outcome)
    /\ UNCHANGED <<script, loaded, storage, themeVars, menuVars, navVars, requests>>

\* The 400 ms timer fires: iframe.remove()
RemoveTimer(n) ==
    /\ loaded
    /\ n \in DOMAIN iframes
    /\ iframes[n] = "timer400"
    /\ iframes' = Without(iframes, n)
    /\ UNCHANGED <<script, loaded, storage, themeVars, menuVars, navVars, prints,
                   requests>>

\* The theme, the menu and the loading and leaving of the page.
NextChrome ==
    \/ DOMContentLoaded
    \/ Unload
    \/ ThemeToggleClick
    \/ HamburgerClick
    \/ MenuLinkClick
    \/ EscapeKey
    \/ DocumentClick

\* The page with its scroll handling.  Scrolling and printing share no
\* state, so each is explored with the rest of the page on its own.
NextNav ==
    \/ NextChrome
    \/ Scroll
    \/ AnimationFrame

\* The browser runs every requested animation-frame callback.
NavSpec == InitApp /\ [][NextNav]_vars /\ WF_vars(AnimationFrame)

\* The page with its print buttons.
NextPrint ==
    \/ NextChrome
    \/ PrintClick
    \/ \E n \in 1..MaxPrints : IframeLoad(n)
    \/ \E n \in 1..MaxPrints : ReadyTimer(n)
    \/ \E n \in 1..MaxPrints : RemoveTimer(n)

\* The browser delivers every load event and runs every timer that is due.
PrintSpec ==
    /\ InitApp
    /\ [][NextPrint]_vars
    /\ \A n \in 1..MaxPrints :
          WF_vars(IframeLoad(n)) /\ WF_vars(ReadyTimer(n)) /\ WF_vars(RemoveTimer(n))

-----------------------------------------------------------------------------
(* The page's claims *)

\* A click outside both the hamburger and the menu.
OutsideClick ==
    /\ loaded
    /\ onDocClick(FALSE)
    /\ UNCHANGED <<script, loaded, storage, themeVars, navVars, printVars>>

\* The menu is shown as open: classes, ARIA attributes and scroll lock.
ShownOpen ==
    /\ hamburgerActive
    /\ menuActive
    /\ ariaExpanded = "true"
    /\ ariaHidden = "false"
    /\ bodyOverflow = "hidden"

C24_Theme ==
    /\ [](loaded =>
             /\ dataTheme \in {LIGHT, DARK}
             /\ ariaPressed = (IF dataTheme = DARK THEN "true" ELSE "false")
             /\ storage = "ok" => stored = dataTheme)
    /\ [][(~loaded /\ loaded') =>
             dataTheme' = IF storage = "unavailable" \/ stored = "none"
                          THEN LIGHT ELSE stored]_vars
    /\ [][(loaded /\ ~loaded' /\ storage = "ok") => stored' = dataTheme]_vars

C24_Witness ==
    /\ loaded
    /\ storage = "ok"
    /\ dataTheme = DARK
    /\ stored = DARK
    /\ ariaPressed = "true"

\* What onScroll last showed is not what the scroll position calls for.
Stale ==
    /\ loaded
    /\ headerScrolled # (scrollY > 100) \/ current # Active(scrollY)

Requested == Len(requests') = Len(requests) + 1

\* C26: printSection creates nothing when no element has the id;
\* otherwise it appends exactly one iframe, print() is called on it at
\* most once, and the iframe is eventually removed, also when print()
\* throws: no iframe is left behind.
C26_PrintIframe ==
    /\ [][Requested =>
             IF HasElement(requests'[Len(requests')])
             THEN /\ DOMAIN iframes' = DOMAIN iframes \cup {Len(requests')}
                  /\ Len(requests') \notin DOMAIN iframes
             ELSE iframes' = iframes]_vars
    /\ [](\A n \in DOMAIN prints : prints[n] <= 1)
    /\ \A n \in 1..MaxPrints : (n \in DOMAIN iframes) ~> (n \notin DOMAIN iframes)

C26_Witness ==
    /\ loaded
    /\ Len(requests) = MaxPrints
    /\ \E n \in DOMAIN prints : prints[n] = 1 /\ n \notin DOMAIN iframes
    /\ \E n \in DOMAIN iframes : iframes[n] = "timer400"

=============================================================================
